---- MODULE Spec2Model ----
(***************************************************************************)
(* Medea: the balancer (handleSubmit, handleProxy, the workflows table)    *)
(* and the scout (the /api/request capacity query).                        *)
(*                                                                         *)
(* Strings the code inspects character by character (parameter values,     *)
(* error texts) are sequences of one-character strings; strings it only    *)
(* compares or copies are TLA+ strings.  Decimal numbers are exact, in     *)
(* hundredths ("centi"); a product of two of them is in ten-thousandths.   *)
(***************************************************************************)
EXTENDS Integers, Sequences, FiniteSets, TLC

\* ------------------------------------------------------------ bounds
\* Concurrent submission handlers and lifecycle handlers (goroutines).
NumSubmits == 2
NumProxies == 1

SubmitIds == 1..NumSubmits
ProxyIds  == 1..NumProxies

\* ------------------------------------------------------------ domains
Clusters   == {"http://c1", "http://c2"}
Namespaces == {"ns1", "ns2"}
None       == "-"

\* ------------------------------------------------------------ strings
DigitChars == <<"0", "1", "2", "3", "4", "5", "6", "7", "8", "9">>
IsDigit(c) == \E i \in 1..10 : DigitChars[i] = c
DigitVal(c) == (CHOOSE i \in 1..10 : DigitChars[i] = c) - 1

\* strings.Contains(s, sub)
Contains(s, sub) ==
    \E i \in 1..(Len(s) - Len(sub) + 1) : SubSeq(s, i, i + Len(sub) - 1) = sub

\* strings.ReplaceAll(s, c, "") for a one-character c
RECURSIVE RemoveAll(_, _)
RemoveAll(s, c) ==
    IF s = <<>> THEN <<>>
    ELSE IF Head(s) = c THEN RemoveAll(Tail(s), c)
    ELSE <<Head(s)>> \o RemoveAll(Tail(s), c)

RECURSIVE DigitsVal(_)
DigitsVal(s) ==
    IF s = <<>> THEN 0
    ELSE 10 * DigitsVal(SubSeq(s, 1, Len(s) - 1)) + DigitVal(s[Len(s)])

\* strconv.ParseFloat(s, 64) on plain decimals with at most two fractional
\* digits: [ok, val] with val in hundredths; a syntax error yields (0, err).
ParseFloat(s) ==
    LET signed == s # <<>> /\ s[1] \in {"+", "-"}
        body   == IF signed THEN Tail(s) ELSE s
        dots   == {i \in 1..Len(body) : body[i] = "."}
        dot    == IF dots = {} THEN Len(body) + 1 ELSE CHOOSE i \in dots : TRUE
        ip     == SubSeq(body, 1, dot - 1)
        fp     == SubSeq(body, dot + 1, Len(body))
        wellformed ==
            /\ Cardinality(dots) <= 1
            /\ Len(ip) + Len(fp) >= 1
            /\ Len(fp) <= 2
            /\ \A i \in 1..Len(body) : i \in dots \/ IsDigit(body[i])
        mag == 100 * DigitsVal(ip)
               + (IF Len(fp) = 1 THEN 10 * DigitsVal(fp) ELSE DigitsVal(fp))
    IN  IF ~wellformed THEN [ok |-> FALSE, val |-> 0]
        ELSE [ok |-> TRUE, val |-> IF signed /\ s[1] = "-" THEN -mag ELSE mag]

\* ------------------------------------------------------------ calculateResources
\* A parameter string p is kept as strings.Split(p, "="): its first segment
\* (key) and the remaining segments (rest), so len(parts) = 1 + Len(rest).
Param(k, v) == [key |-> k, rest |-> <<v>>]

\* Mutant: the first entry of a key is kept, later ones are ignored.
ParamVals_FirstWins(params) ==
    LET good == {i \in 1..Len(params) : Len(params[i].rest) = 1}
        first(k) == CHOOSE i \in good :
                      /\ params[i].key = k
                      /\ \A j \in good : params[j].key = k => j >= i
    IN  [k \in {params[i].key : i \in good} |-> params[first(k)].rest[1]]

\* Mutant: an entry with more than one "=" is kept, with its second part as
\* the value.
ParamVals_AtLeastTwo(params) ==
    LET good == {i \in 1..Len(params) : Len(params[i].rest) >= 1}
        last(k) == CHOOSE i \in good :
                      /\ params[i].key = k
                      /\ \A j \in good : params[j].key = k => j <= i
    IN  [k \in {params[i].key : i \in good} |-> params[last(k)].rest[1]]

\* part_001:235-241: the map built from the entries with exactly two parts;
\* a later entry overwrites an earlier one with the same key.
ParamVals(params) ==
    LET good == {i \in 1..Len(params) : Len(params[i].rest) = 1}
        last(k) == CHOOSE i \in good :
                      /\ params[i].key = k
                      /\ \A j \in good : params[j].key = k => j <= i
    IN  [k \in {params[i].key : i \in good} |-> params[last(k)].rest[1]]

\* part_001:244-250: the ParseFloat error is dropped, the value is then 0.
getVal(vals, key) ==
    IF key \in DOMAIN vals THEN ParseFloat(vals[key]).val ELSE 0

\* Mutant: a value without the unit marker is read as a number.
getMem_Coerce(vals, key) ==
    IF key \notin DOMAIN vals THEN [err |-> "", val |-> 0]
    ELSE LET f == ParseFloat(RemoveAll(vals[key], "g"))
         IN  [err |-> IF f.ok THEN "" ELSE "strconv.ParseFloat: invalid syntax",
              val |-> f.val]

\* part_001:253-263: err = "" is nil; the first error names the key, the
\* second is the one of ParseFloat.
getMem(vals, key) ==
    IF key \notin DOMAIN vals THEN [err |-> "", val |-> 0]
    ELSE IF ~Contains(vals[key], <<"g">>)
    THEN [err |-> "memory param " \o key \o " must contain 'g' (gigabytes)", val |-> 0]
    ELSE LET f == ParseFloat(RemoveAll(vals[key], "g"))
         IN  [err |-> IF f.ok THEN "" ELSE "strconv.ParseFloat: invalid syntax",
              val |-> f.val]

\* Mutant: the driver's cores are counted once per executor.
calculateResources_DriverPerExecutor(params) ==
    LET vals               == ParamVals(params)
        executorNum        == getVal(vals, "executor_num")
        driverCoresLimit   == getVal(vals, "driver_cores_limit")
        executorCoresLimit == getVal(vals, "executor_cores_limit")
        driverMemLimit     == getMem(vals, "driver_memory_limit")
        executorMemLimit   == getMem(vals, "executor_memory_limit")
    IN  IF driverMemLimit.err # "" THEN [err |-> driverMemLimit.err, cpu |-> 0, ram |-> 0]
        ELSE IF executorMemLimit.err # ""
        THEN [err |-> executorMemLimit.err, cpu |-> 0, ram |-> 0]
        ELSE [err |-> "",
              cpu |-> (executorCoresLimit + driverCoresLimit) * executorNum,
              ram |-> executorMemLimit.val * executorNum + 100 * driverMemLimit.val]

\* part_001:234-283: [err, cpu, ram], cpu and ram in ten-thousandths; the
\* driver's memory is checked first.
calculateResources(params) ==
    LET vals               == ParamVals(params)
        executorNum        == getVal(vals, "executor_num")
        driverCoresLimit   == getVal(vals, "driver_cores_limit")
        executorCoresLimit == getVal(vals, "executor_cores_limit")
        driverMemLimit     == getMem(vals, "driver_memory_limit")
        executorMemLimit   == getMem(vals, "executor_memory_limit")
    IN  IF driverMemLimit.err # "" THEN [err |-> driverMemLimit.err, cpu |-> 0, ram |-> 0]
        ELSE IF executorMemLimit.err # ""
        THEN [err |-> executorMemLimit.err, cpu |-> 0, ram |-> 0]
        ELSE [err |-> "",
              cpu |-> executorCoresLimit * executorNum + 100 * driverCoresLimit,
              ram |-> executorMemLimit.val * executorNum + 100 * driverMemLimit.val]

\* ------------------------------------------------------------ scout
\* One element of PrometheusResponse.Data.Result: the cluster label and
\* Value[1], which is missing ("short"), not a JSON string ("number") or a
\* string ("string", with its text).
Sample(c, kind, text) == [cluster |-> c, kind |-> kind, text |-> text]

\* scout main.go:68-83: entries that cannot be read are skipped; a later
\* entry for a cluster overwrites an earlier one.  Values in hundredths.
fetchResources(raw) ==
    LET good == {i \in 1..Len(raw) :
                    raw[i].kind = "string" /\ ParseFloat(raw[i].text).ok}
        last(c) == CHOOSE i \in good :
                      /\ raw[i].cluster = c
                      /\ \A j \in good : raw[j].cluster = c => j <= i
    IN  [c \in {raw[i].cluster : i \in good} |-> ParseFloat(raw[last(c)].text).val]

\* mems[cluster] of a Go map: the zero value for a missing key.
MapGet(m, c) == IF c \in DOMAIN m THEN m[c] ELSE 0

\* scout main.go:126-132: needs in ten-thousandths, capacities in hundredths.
Suitable(cpus, mems, needCPU, needRAM) ==
    {c \in DOMAIN cpus : 100 * cpus[c] >= needCPU /\ 100 * MapGet(mems, c) >= needRAM}

\* ------------------------------------------------------------ state
VARIABLES
    table,    \* the rows of workflows, in the order they were inserted
    nextId,   \* the next value of the id sequence (SERIAL)
    clock,    \* the database clock (CURRENT_TIMESTAMP)
    sub,      \* sub[i]: the handleSubmit call of goroutine i
    prx,      \* prx[j]: the handleProxy call of goroutine j
    prom,     \* prom[ns]: what Prometheus answers the two queries for ns
    scout,    \* the /api/request call of the scout
    calc      \* one call of calculateResources and what handleSubmit makes of it

vars == <<table, nextId, clock, sub, prx, prom, scout, calc>>

\* ------------------------------------------------------------ requests
ExampleParams ==
    << Param("executor_num", <<"2">>),
       Param("driver_cores_limit", <<"1">>),
       Param("executor_cores_limit", <<"1">>),
       Param("driver_memory_limit", <<"0", ".", "2", "5", "g">>),
       Param("executor_memory_limit", <<"6", "g">>) >>

\* Submission bodies as the caller sends them (raw bytes).
BadJsonBody == "{not json"
BadMemBody  == "{resourceName:tplA, parameters:[driver_memory_limit=5]}"
OkBody      == "{resourceName:tplA, parameters:[executor_num=2, ...]}"
\* The same submission written differently: other spacing and a field the
\* balancer does not read.
OkBodyLabels == "{ resourceName: tplA, labels: team=a, parameters: [executor_num=2, ...] }"
ReqBodies   == {BadJsonBody, BadMemBody, OkBody, OkBodyLabels}
Tuzs        == {"TUZ1234"}

\* part_001:114-115: json.Unmarshal(bodyBytes, &req) on these bodies.
UnmarshalSubmit(raw) ==
    CASE raw = BadMemBody ->
             [ok |-> TRUE, resourceName |-> "tplA",
              parameters |-> <<Param("driver_memory_limit", <<"5">>)>>]
      [] raw \in {OkBody, OkBodyLabels} ->
             [ok |-> TRUE, resourceName |-> "tplA", parameters |-> ExampleParams]
      [] OTHER -> [ok |-> FALSE, resourceName |-> "", parameters |-> <<>>]

\* Response bodies of a cluster to a submission (raw bytes).
NamedBody1 == "{metadata:{name:wf-1}}"
NamedBody2 == "{metadata:{name:wf-2}}"
RespBodies == {NamedBody1, NamedBody2, "{}", "upstream connect error"}
DownStatuses == {200, 299, 300, 500}

\* part_001:167-168: json.Unmarshal(respBody, &wfResp) and Metadata.Name.
UnmarshalWorkflow(raw) ==
    CASE raw = NamedBody1 -> [ok |-> TRUE, name |-> "wf-1"]
      [] raw = NamedBody2 -> [ok |-> TRUE, name |-> "wf-2"]
      [] raw = "{}"       -> [ok |-> TRUE, name |-> ""]
      [] OTHER            -> [ok |-> FALSE, name |-> ""]

\* Responses of a cluster to a lifecycle request.
ProxyResps == { [status |-> 200, ctype |-> "application/json", body |-> "{status:Running}"],
                [status |-> 404, ctype |-> "text/plain", body |-> "workflow not found"] }

\* Bodies of lifecycle requests.
ProxyBodies == {"", "{force:true}"}

Names   == {"wf-1", "wf-2"}
Methods == {"GET", "DELETE", "PUT"}
Queries == {"", "watch=true"}

\* part_001:88-90: the paths the mux routes to handleProxy.
ProxyPath(method, ns, name) ==
    <<"/api/v1/workflows/", ns, "/", name>>
        \o (IF method = "PUT" THEN <<"/stop">> ELSE <<>>)

NoReq == [method |-> None, url |-> <<>>, body |-> "", tuz |-> None]
NoResp == [status |-> 0, ctype |-> "", body |-> ""]

\* ------------------------------------------------------------ routing table
\* Mutant: the template's name is stored as the workflow's name.
Row_TemplateAsName(id, wfName, wfTemplate, ns, cluster, createdAt) ==
    [id |-> id, workflowname |-> wfTemplate, workflowtemplate |-> wfTemplate,
     namespace |-> ns, cluster |-> cluster, created_at |-> createdAt]

\* part_001:314-317 and init.sql:2-9: the row an INSERT adds.
Row(id, wfName, wfTemplate, ns, cluster, createdAt) ==
    [id |-> id, workflowname |-> wfName, workflowtemplate |-> wfTemplate,
     namespace |-> ns, cluster |-> cluster, created_at |-> createdAt]

Matching(t, wfName, ns) ==
    {k \in 1..Len(t) : t[k].workflowname = wfName /\ t[k].namespace = ns}

\* Mutant: ORDER BY id ASC, the oldest matching row.
getClusterFromDB_Oldest(t, wfName, ns) ==
    LET m == Matching(t, wfName, ns)
    IN  IF m = {} THEN [err |-> "ErrNoRows", cluster |-> ""]
        ELSE [err |-> "",
              cluster |-> t[CHOOSE k \in m : \A l \in m : t[l].id >= t[k].id].cluster]

\* Mutant: the WHERE clause leaves the workflow name out.
getClusterFromDB_AnyName(t, wfName, ns) ==
    LET m == {k \in 1..Len(t) : t[k].namespace = ns}
    IN  IF m = {} THEN [err |-> "ErrNoRows", cluster |-> ""]
        ELSE [err |-> "",
              cluster |-> t[CHOOSE k \in m : \A l \in m : t[l].id <= t[k].id].cluster]

\* Mutant: the WHERE clause leaves the namespace out.
getClusterFromDB_AnyNamespace(t, wfName, ns) ==
    LET m == {k \in 1..Len(t) : t[k].workflowname = wfName}
    IN  IF m = {} THEN [err |-> "ErrNoRows", cluster |-> ""]
        ELSE [err |-> "",
              cluster |-> t[CHOOSE k \in m : \A l \in m : t[l].id <= t[k].id].cluster]

\* part_001:325-331: WHERE workflowname = $1 AND namespace = $2
\* ORDER BY id DESC LIMIT 1; no row is sql.ErrNoRows.
getClusterFromDB(t, wfName, ns) ==
    LET m == Matching(t, wfName, ns)
    IN  IF m = {} THEN [err |-> "ErrNoRows", cluster |-> ""]
        ELSE [err |-> "",
              cluster |-> t[CHOOSE k \in m : \A l \in m : t[l].id <= t[k].id].cluster]

\* Mutant: an upsert, the row of the same workflow name and namespace is
\* overwritten in place.
saveWorkflowToDB_Upsert(t, row) ==
    LET m == Matching(t, row.workflowname, row.namespace)
    IN  IF m = {} THEN Append(t, row)
        ELSE [k \in 1..Len(t) |-> IF k \in m THEN row ELSE t[k]]

\* part_001:316-317: the INSERT appends a row and touches no other row.
saveWorkflowToDB(t, row) == Append(t, row)

\* ------------------------------------------------------------ placement
\* Mutant: when only the RAM query failed, the choice is made on the CPU
\* snapshot alone.
scoutSelect_Fallback(cpuRes, ramRes, needCPU, needRAM) ==
    IF cpuRes.err
    THEN {[status |-> 500, cluster |-> ""]}
    ELSE LET mems == IF ramRes.err THEN <<>> ELSE ramRes.m
             suitable == IF ramRes.err
                         THEN {c \in DOMAIN cpuRes.m : 100 * cpuRes.m[c] >= needCPU}
                         ELSE Suitable(cpuRes.m, mems, needCPU, needRAM)
         IN  IF suitable = {}
             THEN {[status |-> 404, cluster |-> ""]}
             ELSE {[status |-> 200, cluster |-> c] : c \in suitable}

\* scout main.go:121-142 for a well-formed POST: the responses the handler
\* can send given the results of the two fetchResources calls.
scoutSelect(cpuRes, ramRes, needCPU, needRAM) ==
    IF cpuRes.err \/ ramRes.err
    THEN {[status |-> 500, cluster |-> ""]}
    ELSE LET suitable == Suitable(cpuRes.m, ramRes.m, needCPU, needRAM)
         IN  IF suitable = {}
             THEN {[status |-> 404, cluster |-> ""]}
             ELSE {[status |-> 200, cluster |-> c] : c \in suitable}

RECURSIVE Itoa(_)
Itoa(n) == IF n < 10 THEN <<DigitChars[n + 1]>>
           ELSE Itoa(n \div 10) \o <<DigitChars[(n % 10) + 1]>>

Err404Text    == <<"4", "0", "4", " ", "C", "l", "u", "s", "t", "e", "r", " ", "n", "o", "t", " ", "f", "o", "u", "n", "d">>
ErrStatusText == <<"s", "c", "o", "u", "t", " ", "r", "e", "t", "u", "r", "n", "e", "d", " ", "s", "t", "a", "t", "u", "s", " ">>
ErrDecodeText == <<"u", "n", "e", "x", "p", "e", "c", "t", "e", "d", " ", "E", "O", "F">>
\* http.Post's error text names the configured scout address.
NetErrTexts ==
    { <<"d", "i", "a", "l", " ", "t", "c", "p", " ", "1", "2", "7", ".", "0", ".", "0", ".", "1", ":", "8", "0", "8", "1", ":", " ", "c", "o", "n", "n", "e", "c", "t", "i", "o", "n", " ", "r", "e", "f", "u", "s", "e", "d">>,
      <<"d", "i", "a", "l", " ", "t", "c", "p", " ", "1", "2", "7", ".", "0", ".", "0", ".", "1", ":", "4", "0", "4", "0", ":", " ", "c", "o", "n", "n", "e", "c", "t", "i", "o", "n", " ", "r", "e", "f", "u", "s", "e", "d">> }

\* What http.Post to the scout can give getTargetCluster: an error, or the
\* scout's response (decodable or not).
ScoutCall(p, needCPU, needRAM) ==
    {[kind |-> "neterr", text |-> t, status |-> 0, cluster |-> ""] : t \in NetErrTexts}
    \cup {[kind |-> "garbled", text |-> <<>>, status |-> 200, cluster |-> ""]}
    \cup {[kind |-> "http", text |-> <<>>, status |-> r.status, cluster |-> r.cluster] :
            r \in scoutSelect([err |-> FALSE, m |-> fetchResources(p.cpu)],
                              [err |-> FALSE, m |-> fetchResources(p.ram)],
                              needCPU, needRAM)
                  \cup {[status |-> 500, cluster |-> ""]}}

\* part_001:285-312: [err, cluster]; err = <<>> is nil.
getTargetCluster(reply) ==
    IF reply.kind = "neterr" THEN [err |-> reply.text, cluster |-> ""]
    ELSE IF reply.status = 404 THEN [err |-> Err404Text, cluster |-> ""]
    ELSE IF reply.status # 200
         THEN [err |-> ErrStatusText \o Itoa(reply.status), cluster |-> ""]
    ELSE IF reply.kind = "garbled" THEN [err |-> ErrDecodeText, cluster |-> ""]
    ELSE [err |-> <<>>, cluster |-> reply.cluster]

\* ------------------------------------------------------------ handleSubmit
IdleSub ==
    [pc |-> "idle", ns |-> None, tuz |-> None, body |-> "", template |-> "",
     cpu |-> 0, ram |-> 0,
     valid |-> None,                  \* history: how decoding and validation ended
     skind |-> None, sstatus |-> 0,   \* history: what the call to the scout gave
     scluster |-> "",                 \* history: the cluster the scout named
     cluster |-> "", fwd |-> NoReq, sent |-> 0,
     dstatus |-> 0, dbody |-> "",
     acc |-> 0,   \* history: the rank of this submission among those a cluster accepted
     created_at |-> 0, attempts |-> 0,
     saved |-> "none", rowid |-> 0, status |-> 0, rbody |-> "", exit |-> None]

\* http.Error / WriteHeader + Write, after which the handler returns: its
\* locals are gone; what stays is what it sent and received, what it did to
\* the table and, for a submission a cluster accepted, where it was accepted.
Return(r, status, body, exit) ==
    [IdleSub EXCEPT !.pc = "done", !.status = status, !.rbody = body, !.exit = exit,
                    !.ns = IF r.acc > 0 THEN r.ns ELSE None,
                    !.scluster = IF r.acc > 0 THEN r.scluster ELSE "",
                    !.acc = r.acc,
                    !.valid = r.valid, !.skind = r.skind, !.sstatus = r.sstatus,
                    !.sent = r.sent, !.dstatus = r.dstatus, !.dbody = r.dbody,
                    !.attempts = r.attempts, !.saved = r.saved, !.rowid = r.rowid]

\* Mutant: the upper end of the success range is not checked.
ShouldSave_NoUpperBound(status, body) ==
    /\ status >= 200
    /\ UnmarshalWorkflow(body).ok
    /\ UnmarshalWorkflow(body).name # ""

\* part_001:166-168: the condition under which a record is written.
ShouldSave(status, body) ==
    /\ status >= 200 /\ status < 300
    /\ UnmarshalWorkflow(body).ok
    /\ UnmarshalWorkflow(body).name # ""

\* part_001:146-150, 208-212: http.NewRequest rejects a URL it cannot parse;
\* a cluster label that starts with a host:port and has no scheme is one
\* ("first path segment in URL cannot contain colon").
BadLabel == "10.0.0.2:8080"
ValidURL(cluster) == cluster # BadLabel

\* Mutant: the decoded submission is encoded again and sent instead of the
\* bytes received.
SubmitRequestTo_Reencoded(cluster, ns, body, tuz) ==
    [method |-> "POST", url |-> <<cluster, "/api/v1/workflows/", ns, "/submit">>,
     body |-> IF UnmarshalSubmit(body).ok THEN OkBody ELSE body, tuz |-> tuz]

\* part_001:143-152: the request forwarded to the chosen cluster.
SubmitRequestTo(cluster, ns, body, tuz) ==
    [method |-> "POST", url |-> <<cluster, "/api/v1/workflows/", ns, "/submit">>,
     body |-> body, tuz |-> tuz]

\* part_001:106-110: the body cannot be read.
SubmitReadFail(i) ==
    /\ sub[i].pc = "idle"
    /\ \E ns \in Namespaces, tuz \in Tuzs :
         sub' = [sub EXCEPT ![i] =
                   Return([@ EXCEPT !.ns = ns, !.tuz = tuz],
                          500, "Failed to read body", "ReadFailed")]
    /\ UNCHANGED <<table, nextId, clock, prx, prom, scout, calc>>

\* Mutant: the error of calculateResources is ignored.
SubmitReceive_NoValidation(i) ==
    /\ sub[i].pc = "idle"
    /\ \E ns \in Namespaces, tuz \in Tuzs, body \in ReqBodies :
         LET req == UnmarshalSubmit(body)
             res == calculateResources(req.parameters)
             r   == [sub[i] EXCEPT !.ns = ns, !.tuz = tuz, !.body = body,
                                   !.valid = IF ~req.ok THEN "badjson"
                                             ELSE IF res.err # "" THEN "badparams"
                                             ELSE "ok"]
         IN  sub' = [sub EXCEPT ![i] =
                 IF ~req.ok THEN Return(r, 400, "Invalid JSON", "ValidationFailed")
                 ELSE [r EXCEPT !.pc = "place", !.template = req.resourceName,
                                !.cpu = res.cpu, !.ram = res.ram]]
    /\ UNCHANGED <<table, nextId, clock, prx, prom, scout, calc>>

\* part_001:102-128: read, decode and validate the submission.
SubmitReceive(i) ==
    /\ sub[i].pc = "idle"
    /\ \E ns \in Namespaces, tuz \in Tuzs, body \in ReqBodies :
         LET req == UnmarshalSubmit(body)
             res == calculateResources(req.parameters)
             r   == [sub[i] EXCEPT !.ns = ns, !.tuz = tuz, !.body = body,
                                   !.valid = IF ~req.ok THEN "badjson"
                                             ELSE IF res.err # "" THEN "badparams"
                                             ELSE "ok"]
         IN  sub' = [sub EXCEPT ![i] =
                 IF ~req.ok THEN Return(r, 400, "Invalid JSON", "ValidationFailed")
                 ELSE IF res.err # ""
                 THEN Return(r, 400, res.err, "ValidationFailed")
                 ELSE [r EXCEPT !.pc = "place", !.template = req.resourceName,
                                !.cpu = res.cpu, !.ram = res.ram]]
    /\ UNCHANGED <<table, nextId, clock, prx, prom, scout, calc>>

\* Mutant: a cluster another submission is being forwarded to is held for
\* that submission and not offered to this one.
ScoutReplies_Reserving(i) ==
    {x \in ScoutCall(prom[sub[i].ns], sub[i].cpu, sub[i].ram) :
        ~\E k \in SubmitIds \ {i} : sub[k].pc = "forward" /\ x.cluster = sub[k].cluster}

\* part_001:131, 285-293: what the call to the scout can give submission i:
\* the scout is asked with the submission's own namespace and requirement.
ScoutReplies(i) == ScoutCall(prom[sub[i].ns], sub[i].cpu, sub[i].ram)

\* Mutant: when the scout gives no cluster the submission goes to a default
\* cluster.
SubmitPlace_FallsBack(i) ==
    /\ sub[i].pc = "place"
    /\ \E reply \in ScoutReplies(i) :
         LET t == getTargetCluster(reply)
             c == IF t.err # <<>> THEN "http://c1" ELSE t.cluster
             r == [sub[i] EXCEPT !.skind = reply.kind, !.sstatus = reply.status,
                                 !.scluster = reply.cluster]
         IN  sub' = [sub EXCEPT ![i] =
                 IF ~ValidURL(c)
                 THEN Return(r, 500, "Failed to create proxy request", "CreateRequestFailed")
                 ELSE [r EXCEPT !.pc = "forward", !.cluster = c,
                                !.fwd = SubmitRequestTo(c, sub[i].ns, sub[i].body,
                                                       sub[i].tuz),
                                !.sent = @ + 1]]
    /\ UNCHANGED <<table, nextId, clock, prx, prom, scout, calc>>

\* part_001:131-152: ask the scout, then build the request for the cluster.
SubmitPlace(i) ==
    /\ sub[i].pc = "place"
    /\ \E reply \in ScoutReplies(i) :
         LET t == getTargetCluster(reply)
             r == [sub[i] EXCEPT !.skind = reply.kind, !.sstatus = reply.status,
                                 !.scluster = reply.cluster]
         IN  sub' = [sub EXCEPT ![i] =
                 IF t.err # <<>>
                 THEN IF Contains(t.err, <<"4", "0", "4">>)
                      THEN Return(r, 404, "Cluster not found", "PlacementFailed")
                      ELSE Return(r, 500, "Scout service error", "PlacementFailed")
                 ELSE IF ~ValidURL(t.cluster)
                 THEN Return(r, 500, "Failed to create proxy request", "CreateRequestFailed")
                 ELSE [r EXCEPT !.pc = "forward", !.cluster = t.cluster,
                                !.fwd = SubmitRequestTo(t.cluster, sub[i].ns, sub[i].body,
                                                       sub[i].tuz),
                                !.sent = @ + 1]]
    /\ UNCHANGED <<table, nextId, clock, prx, prom, scout, calc>>

\* Mutant: after a failed forward the scout is asked again.
SubmitForwardFail_TryAgain(i) ==
    /\ sub[i].pc = "forward"
    /\ sub' = [sub EXCEPT ![i] = [@ EXCEPT !.pc = "place"]]
    /\ UNCHANGED <<table, nextId, clock, prx, prom, scout, calc>>

\* part_001:155-160: client.Do fails (unreachable, timed out).
SubmitForwardFail(i) ==
    /\ sub[i].pc = "forward"
    /\ sub' = [sub EXCEPT ![i] =
                 Return(@, 502, "Failed to forward request", "ForwardFailed")]
    /\ UNCHANGED <<table, nextId, clock, prx, prom, scout, calc>>

\* part_001:155-177 when the cluster answers (the body is what io.ReadAll
\* returned): either the handler goes on to saveWorkflowToDB, or it answers
\* the caller at once.
SubmitForwardResp(i) ==
    /\ sub[i].pc = "forward"
    /\ \E st \in DownStatuses, b \in RespBodies :
         LET r == [sub[i] EXCEPT !.dstatus = st, !.dbody = b]
             n == Cardinality({k \in SubmitIds : sub[k].acc > 0})
         IN  sub' = [sub EXCEPT ![i] =
                 IF ShouldSave(st, b) THEN [r EXCEPT !.pc = "save", !.acc = n + 1]
                 ELSE Return(r, r.dstatus, r.dbody, "Completed")]
    /\ UNCHANGED <<table, nextId, clock, prx, prom, scout, calc>>

\* part_001:317, init.sql:8: db.Exec starts the INSERT; its statement takes
\* CURRENT_TIMESTAMP when it starts, and the clock may have advanced.
SubmitSaveBegin(i) ==
    /\ sub[i].pc = "save"
    /\ \E t \in {clock, clock + 1} :
         /\ clock' = t
         /\ sub' = [sub EXCEPT ![i] = [@ EXCEPT !.pc = "insert", !.created_at = t,
                                                !.attempts = @ + 1]]
    /\ UNCHANGED <<table, nextId, prx, prom, scout, calc>>

\* Mutant: the failed INSERT is reported to the caller.
SubmitSaveFail_Surfaced(i) ==
    /\ sub[i].pc = "insert"
    /\ sub' = [sub EXCEPT ![i] =
                 Return([@ EXCEPT !.saved = "failed"], 500, "Database error", "Completed")]
    /\ UNCHANGED <<table, nextId, clock, prx, prom, scout, calc>>

\* Mutant: the failed INSERT is tried again.
SubmitSaveFail_Retry(i) ==
    /\ sub[i].pc = "insert"
    /\ sub' = [sub EXCEPT ![i] = [@ EXCEPT !.pc = "save"]]
    /\ UNCHANGED <<table, nextId, clock, prx, prom, scout, calc>>

\* part_001:317-319, 175-177: the INSERT fails; the error is only logged.
SubmitSaveFail(i) ==
    /\ sub[i].pc = "insert"
    /\ sub' = [sub EXCEPT ![i] =
                 Return([@ EXCEPT !.saved = "failed"], @.dstatus, @.dbody, "Completed")]
    /\ UNCHANGED <<table, nextId, clock, prx, prom, scout, calc>>

\* part_001:317-321, 175-177, init.sql:3: the INSERT takes the next id of
\* the sequence and adds the row; then the caller is answered.
SubmitSaveExec(i) ==
    /\ sub[i].pc = "insert"
    /\ table' = saveWorkflowToDB(table,
                    Row(nextId, UnmarshalWorkflow(sub[i].dbody).name, sub[i].template,
                        sub[i].ns, sub[i].cluster, sub[i].created_at))
    /\ nextId' = nextId + 1
    /\ sub' = [sub EXCEPT ![i] =
                 Return([@ EXCEPT !.saved = "ok", !.rowid = nextId],
                        @.dstatus, @.dbody, "Completed")]
    /\ UNCHANGED <<clock, prx, prom, scout, calc>>

\* ------------------------------------------------------------ handleProxy
IdlePrx ==
    [pc |-> "idle", method |-> None, ns |-> None, name |-> None, query |-> "",
     tuz |-> None, body |-> "", path |-> <<>>, cluster |-> "", fwd |-> NoReq, sent |-> 0,
     hits |-> 0,   \* history: the matching rows the table held at the lookup
     lookup |-> None,   \* history: how the SELECT ended
     dstatus |-> 0, dbody |-> "", dctype |-> "",
     status |-> 0, rbody |-> "", rctype |-> "", exit |-> None]

\* The handler returns: what stays is the request line it served, what it
\* sent to a cluster, what the cluster answered and what it answered.
ReturnPrx(r, resp, exit) ==
    [IdlePrx EXCEPT !.pc = "done", !.status = resp.status, !.rbody = resp.body,
                    !.rctype = resp.ctype, !.exit = exit,
                    !.method = r.method, !.sent = r.sent, !.hits = r.hits,
                    !.lookup = r.lookup,
                    !.dstatus = r.dstatus, !.dbody = r.dbody, !.dctype = r.dctype]

\* http.Error(w, text, code)
HttpError(code, text) == [status |-> code, ctype |-> "text/plain; charset=utf-8", body |-> text]

\* Mutant: the caller's body is not passed on.
ProxyRequestTo_NoBody(cluster, method, path, query, body, tuz) ==
    [method |-> method,
     url |-> <<cluster>> \o path \o (IF query # "" THEN <<"?", query>> ELSE <<>>),
     body |-> "", tuz |-> tuz]

\* part_001:200-215: the request reissued against the resolved cluster.
ProxyRequestTo(cluster, method, path, query, body, tuz) ==
    [method |-> method,
     url |-> <<cluster>> \o path \o (IF query # "" THEN <<"?", query>> ELSE <<>>),
     body |-> body, tuz |-> tuz]

\* Mutant: every error of the SELECT is taken for "no rows".
ProxyLookupFail_NotFound(j) ==
    /\ prx[j].pc = "idle"
    /\ \E m \in Methods, ns \in Namespaces, n \in Names, q \in Queries, tuz \in Tuzs :
         prx' = [prx EXCEPT ![j] =
                   ReturnPrx([@ EXCEPT !.method = m, !.ns = ns, !.name = n, !.query = q,
                                    !.tuz = tuz, !.path = ProxyPath(m, ns, n),
                                    !.lookup = "error",
                                    !.hits = Cardinality(Matching(table, n, ns))],
                          HttpError(404, "Workflow not found in DB"), "RoutingNotFound")]
    /\ UNCHANGED <<table, nextId, clock, sub, prom, scout, calc>>

\* part_001:187-195: the SELECT itself fails (connection lost, a broken
\* statement): an error other than sql.ErrNoRows.
ProxyLookupFail(j) ==
    /\ prx[j].pc = "idle"
    /\ \E m \in Methods, ns \in Namespaces, n \in Names, q \in Queries, tuz \in Tuzs :
         prx' = [prx EXCEPT ![j] =
                   ReturnPrx([@ EXCEPT !.method = m, !.ns = ns, !.name = n, !.query = q,
                                    !.tuz = tuz, !.path = ProxyPath(m, ns, n),
                                    !.lookup = "error",
                                    !.hits = Cardinality(Matching(table, n, ns))],
                          HttpError(500, "Database error"), "DatabaseError")]
    /\ UNCHANGED <<table, nextId, clock, sub, prom, scout, calc>>

\* part_001:182-216: resolve the cluster and build the request for it.
ProxyLookup(j) ==
    /\ prx[j].pc = "idle"
    /\ \E m \in Methods, ns \in Namespaces, n \in Names, q \in Queries, tuz \in Tuzs,
          body \in ProxyBodies :
         LET r   == [prx[j] EXCEPT !.method = m, !.ns = ns, !.name = n, !.query = q,
                                   !.tuz = tuz, !.body = body, !.path = ProxyPath(m, ns, n),
                                   !.lookup = IF getClusterFromDB(table, n, ns).err = ""
                                              THEN "found" ELSE "norows",
                                   !.hits = Cardinality(Matching(table, n, ns))]
             res == getClusterFromDB(table, n, ns)
         IN  prx' = [prx EXCEPT ![j] =
                 IF res.err # ""
                 THEN ReturnPrx(r, HttpError(404, "Workflow not found in DB"),
                                "RoutingNotFound")
                 ELSE IF ~ValidURL(res.cluster)
                 THEN ReturnPrx(r, HttpError(500, "Failed to create proxy request"),
                                "CreateRequestFailed")
                 ELSE [r EXCEPT !.pc = "forward", !.cluster = res.cluster,
                                !.fwd = ProxyRequestTo(res.cluster, m, r.path, q, body, tuz),
                                !.sent = @ + 1]]
    /\ UNCHANGED <<table, nextId, clock, sub, prom, scout, calc>>

\* part_001:219-223: client.Do fails.
ProxyForwardFail(j) ==
    /\ prx[j].pc = "forward"
    /\ prx' = [prx EXCEPT ![j] =
                 ReturnPrx(@, HttpError(502, "Failed to contact target cluster"),
                           "ForwardFailed")]
    /\ UNCHANGED <<table, nextId, clock, sub, prom, scout, calc>>

\* Mutant: a DELETE the cluster accepted also removes the workflow's rows.
ProxyForwardResp_DeletesRows(j) ==
    /\ prx[j].pc = "forward"
    /\ \E resp \in ProxyResps :
         /\ prx' = [prx EXCEPT ![j] =
                      ReturnPrx([@ EXCEPT !.dstatus = resp.status, !.dbody = resp.body,
                                          !.dctype = resp.ctype],
                                resp, "Relayed")]
         /\ table' = IF prx[j].method = "DELETE" /\ resp.status = 200
                     THEN SelectSeq(table, LAMBDA row :
                              ~(row.workflowname = prx[j].name /\ row.namespace = prx[j].ns))
                     ELSE table
    /\ UNCHANGED <<nextId, clock, sub, prom, scout, calc>>

\* part_001:219-229: the cluster's answer is relayed: its Content-Type, its
\* status code and its body.
ProxyForwardResp(j) ==
    /\ prx[j].pc = "forward"
    /\ \E resp \in ProxyResps :
         prx' = [prx EXCEPT ![j] =
                   ReturnPrx([@ EXCEPT !.dstatus = resp.status, !.dbody = resp.body,
                                       !.dctype = resp.ctype],
                             resp, "Relayed")]
    /\ UNCHANGED <<table, nextId, clock, sub, prom, scout, calc>>

\* ------------------------------------------------------------ specification
IdleScout ==
    [pc |-> "idle", needCPU |-> 0, needRAM |-> 0,
     cpus |-> [err |-> FALSE, m |-> <<>>], mems |-> [err |-> FALSE, m |-> <<>>],
     ncpu |-> 0, nram |-> 0,   \* history: the calls of fetchResources made
     status |-> 0, cluster |-> ""]

\* Prometheus in the balancer's runs: in ns1 two clusters have room for the
\* example submission (3 cores, 12.25 GB), and so has a third one that is
\* labelled with its host and port; in ns2 one cluster lacks the cores, the
\* other the memory.
MainProm ==
    [ns \in Namespaces |->
        IF ns = "ns1"
        THEN [cpu |-> <<Sample("http://c1", "string", <<"4">>),
                        Sample("http://c2", "string", <<"8">>),
                        Sample(BadLabel, "string", <<"8">>)>>,
              ram |-> <<Sample("http://c1", "string", <<"1", "6">>),
                        Sample("http://c2", "string", <<"3", "2">>),
                        Sample(BadLabel, "string", <<"3", "2">>)>>]
        ELSE [cpu |-> <<Sample("http://c1", "string", <<"2">>),
                        Sample("http://c2", "string", <<"4">>)>>,
              ram |-> <<Sample("http://c1", "string", <<"1", "6">>),
                        Sample("http://c2", "string", <<"8">>)>>]]

\* ------------------------------------------------------------ scout handler
\* Number of samples in one Prometheus answer.
MaxSamples == 3

SampleValues ==
    { [kind |-> "short",  text |-> <<>>],
      [kind |-> "number", text |-> <<>>],
      [kind |-> "string", text |-> <<"x">>],
      [kind |-> "string", text |-> <<"0">>],
      [kind |-> "string", text |-> <<"2">>] }
\* The cluster labels Prometheus can report to the scout.
ScoutClusters == Clusters \cup {"http://c3"}
Samples == {Sample(c, v.kind, v.text) : c \in ScoutClusters, v \in SampleValues}

RECURSIVE SeqsUpTo(_, _)
SeqsUpTo(S, n) ==
    IF n = 0 THEN {<<>>}
    ELSE LET shorter == SeqsUpTo(S, n - 1)
         IN  shorter \cup {Append(q, x) : q \in {r \in shorter : Len(r) = n - 1}, x \in S}

\* What one fetchResources call can return: an error (scout main.go:57-66)
\* or the map read from the answer.
FetchResults ==
    {[err |-> TRUE, m |-> <<>>]}
    \cup {[err |-> FALSE, m |-> fetchResources(raw)] : raw \in SeqsUpTo(Samples, MaxSamples)}

\* cpu and ram of the request body, in ten-thousandths: -1, 0, 1 and 3.
Needs == {-10000, 0, 10000, 30000}

ScoutAnswer(status, cluster) ==
    [scout EXCEPT !.pc = "done", !.status = status, !.cluster = cluster]

\* scout main.go:97-106: wrong method, or a body that is not JSON.
ScoutReject ==
    /\ scout.pc = "idle"
    /\ \E st \in {405, 400} : scout' = ScoutAnswer(st, "")
    /\ UNCHANGED <<table, nextId, clock, sub, prx, prom, calc>>

\* scout main.go:102-112
ScoutReceive ==
    /\ scout.pc = "idle"
    /\ \E c \in Needs, r \in Needs :
         scout' = [scout EXCEPT !.pc = "cpu", !.needCPU = c, !.needRAM = r]
    /\ UNCHANGED <<table, nextId, clock, sub, prx, prom, calc>>

\* scout main.go:118
ScoutFetchCPU ==
    /\ scout.pc = "cpu"
    /\ \E res \in FetchResults :
         scout' = [scout EXCEPT !.pc = "ram", !.cpus = res, !.ncpu = @ + 1]
    /\ UNCHANGED <<table, nextId, clock, sub, prx, prom, calc>>

\* scout main.go:119: called whether or not the first call failed.
ScoutFetchRAM ==
    /\ scout.pc = "ram"
    /\ \E res \in FetchResults :
         scout' = [scout EXCEPT !.pc = "select", !.mems = res, !.nram = @ + 1]
    /\ UNCHANGED <<table, nextId, clock, sub, prx, prom, calc>>

\* scout main.go:121-142: any suitable cluster can be the one picked (map
\* iteration order and rand.Intn).
ScoutSelect ==
    /\ scout.pc = "select"
    /\ \E r \in scoutSelect(scout.cpus, scout.mems, scout.needCPU, scout.needRAM) :
         scout' = ScoutAnswer(r.status, r.cluster)
    /\ UNCHANGED <<table, nextId, clock, sub, prx, prom, calc>>

\* ------------------------------------------------------------ calculateResources calls
\* Number of entries a caller adds to the parameter list.
MaxParams == 2

\* Parameter strings, split at "=": well-formed ones for every field, and
\* malformed ones with no "=" (rest empty) or with two.
CalcEntries ==
    { Param("executor_num", <<"3">>),
      Param("executor_num", <<"t", "w", "o">>),
      Param("driver_cores_limit", <<"0", ".", "5">>),
      Param("driver_cores_limit", <<"-", "1">>),
      Param("executor_cores_limit", <<"2">>),
      Param("driver_memory_limit", <<"5">>),
      Param("driver_memory_limit", <<"1", "g">>),
      Param("driver_memory_limit", <<"g">>),
      Param("executor_memory_limit", <<"4", "G">>),
      Param("executor_memory_limit", <<"1", "g", "2">>),
      Param("executor_memory_limit", <<"-", "2", "g">>),
      Param("queue", <<"b", "i", "g">>),
      [key |-> "executor_num", rest |-> <<>>],
      [key |-> "driver_memory_limit", rest |-> <<>>],
      [key |-> "driver_memory_limit", rest |-> <<<<"5">>, <<"6">>>>],
      [key |-> "executor_memory_limit", rest |-> <<<<"7", "g">>, <<>>>>] }

\* The lists handed to calculateResources: nothing or the README's example,
\* followed by up to MaxParams further entries.
ParamLists ==
    {pre \o ext : pre \in {<<>>, ExampleParams}, ext \in SeqsUpTo(CalcEntries, MaxParams)}

IdleCalc == [pc |-> "idle", params |-> <<>>,
             res |-> [err |-> "", cpu |-> 0, ram |-> 0], status |-> 0]

\* part_001:121-126: calculateResources on the decoded parameters; an error
\* is answered 400 with its text, otherwise the handler goes on (status 0).
CalcCall ==
    /\ calc.pc = "idle"
    /\ \E params \in ParamLists :
         LET res == calculateResources(params)
         IN  calc' = [pc |-> "done", params |-> params, res |-> res,
                      status |-> IF res.err # "" THEN 400 ELSE 0]
    /\ UNCHANGED <<table, nextId, clock, sub, prx, prom, scout>>

NextCalc == CalcCall

NextScout ==
    \/ ScoutReject
    \/ ScoutReceive
    \/ ScoutFetchCPU
    \/ ScoutFetchRAM
    \/ ScoutSelect

Init ==
    /\ table = <<>>
    /\ nextId = 1
    /\ clock = 0
    /\ sub = [i \in SubmitIds |-> IdleSub]
    /\ prx = [j \in ProxyIds |-> IdlePrx]
    /\ prom = MainProm
    /\ scout = IdleScout
    /\ calc = IdleCalc

Next ==
    \/ \E i \in SubmitIds : SubmitReadFail(i)
    \/ \E i \in SubmitIds : SubmitReceive(i)
    \/ \E i \in SubmitIds : SubmitPlace(i)
    \/ \E i \in SubmitIds : SubmitForwardFail(i)
    \/ \E i \in SubmitIds : SubmitForwardResp(i)
    \/ \E i \in SubmitIds : SubmitSaveBegin(i)
    \/ \E i \in SubmitIds : SubmitSaveFail(i)
    \/ \E i \in SubmitIds : SubmitSaveExec(i)
    \/ \E j \in ProxyIds : ProxyLookupFail(j)
    \/ \E j \in ProxyIds : ProxyLookup(j)
    \/ \E j \in ProxyIds : ProxyForwardFail(j)
    \/ \E j \in ProxyIds : ProxyForwardResp(j)

Spec == Init /\ [][Next]_vars

\* The scout serving one capacity query, Prometheus answering anything.
SpecScout == Init /\ [][NextScout]_vars

\* What the code guarantees to happen.  The forward calls go through an
\* http.Client with Timeout 10s (part_001:154, 217): each ends, with a
\* response or with an error.  Starting the INSERT is the handler's own step.
\* The call to the scout uses http.Post, that is http.DefaultClient, which
\* has no timeout (part_001:293), and db.Exec and db.QueryRow are called
\* without a context (part_001:317, 329): nothing bounds them, so no fairness
\* is assumed for their completion.
Fairness ==
    /\ \A i \in SubmitIds :
         /\ WF_vars(SubmitForwardFail(i) \/ SubmitForwardResp(i))
         /\ WF_vars(SubmitSaveBegin(i))
    /\ \A j \in ProxyIds : WF_vars(ProxyForwardFail(j) \/ ProxyForwardResp(j))

SpecLive == Init /\ [][Next]_vars /\ Fairness

\* One submission's parameter list going through calculateResources.
SpecCalc == Init /\ [][NextCalc]_vars

\* ------------------------------------------------------------ properties
Is2xx(status) == status \in 200..299
AssignedName(body) ==
    IF UnmarshalWorkflow(body).ok THEN UnmarshalWorkflow(body).name ELSE ""
Resolves(t, n, ns) == Matching(t, n, ns) # {}

\* C1: a submission whose cluster answered outside 200..299 writes no
\* routing record: it never attempted a write, the step that takes the
\* answer leaves the table as it was, and a (workflowName, namespace) that
\* did not resolve before it does not resolve after it.
C1_RejectedWritesNoRecord ==
    [][\A i \in SubmitIds :
         (sub[i].pc = "forward" /\ sub'[i].dstatus # 0 /\ ~Is2xx(sub'[i].dstatus))
         => /\ table' = table
            /\ sub'[i].pc = "done"
            /\ sub'[i].attempts = 0 /\ sub'[i].saved = "none" /\ sub'[i].rowid = 0
            /\ \A n \in Names, ns \in Namespaces :
                 ~Resolves(table, n, ns) => ~Resolves(table', n, ns)]_vars

\* C1 witness: a cluster answered 300 with an assigned name, the caller has
\* been answered, and that name resolves nowhere.
C1_Witness ==
    \E i \in SubmitIds :
        /\ sub[i].pc = "done" /\ sub[i].dstatus = 300
        /\ AssignedName(sub[i].dbody) = "wf-1"
        /\ \A ns \in Namespaces : ~Resolves(table, "wf-1", ns)

\* C6: whenever the cluster returned a response, the caller gets exactly its
\* status code and body, whether the routing-record write succeeded, failed
\* or was not attempted.
C6_DownstreamRelayedVerbatim ==
    \A i \in SubmitIds :
        (sub[i].pc = "done" /\ sub[i].dstatus # 0)
        => /\ sub[i].status = sub[i].dstatus
           /\ sub[i].rbody = sub[i].dbody

\* C6 witness: the write failed and the caller still got the cluster's 200.
C6_Witness ==
    \E i \in SubmitIds :
        /\ sub[i].pc = "done" /\ sub[i].saved = "failed"
        /\ sub[i].dstatus = 200 /\ sub[i].status = 200
        /\ sub[i].rbody = NamedBody1

\* C7: a submission attempts one routing-record write exactly when the
\* cluster answered 2xx with an assigned name, and none otherwise; no
\* submission attempts more than one, and every row of the table is the one
\* row of a submission whose write succeeded.
C7_OneWritePerAcceptedSubmission ==
    /\ \A i \in SubmitIds :
         /\ sub[i].attempts <= 1
         /\ sub[i].pc = "done" =>
              sub[i].attempts =
                 IF Is2xx(sub[i].dstatus) /\ AssignedName(sub[i].dbody) # "" THEN 1 ELSE 0
         /\ sub[i].saved # "none" => sub[i].attempts = 1
    /\ Len(table) = Cardinality({i \in SubmitIds : sub[i].saved = "ok"})
    /\ \A i \in SubmitIds :
         sub[i].saved = "ok" =>
            Cardinality({k \in 1..Len(table) : table[k].id = sub[i].rowid}) = 1

\* C7 witness: one submission accepted with a name wrote its record, another
\* accepted without a name wrote none.
C7_Witness ==
    \E i, k \in SubmitIds :
        /\ sub[i].pc = "done" /\ sub[i].saved = "ok" /\ sub[i].attempts = 1
        /\ sub[k].pc = "done" /\ sub[k].dstatus = 200 /\ sub[k].dbody = "{}"
        /\ sub[k].attempts = 0
        /\ Len(table) = 1

\* The row of (n, ns) written last: no matching row was inserted after it.
NewestWritten(t, k, n, ns) ==
    /\ k \in Matching(t, n, ns)
    /\ \A l \in Matching(t, n, ns) : l <= k

\* C2: (a) the record a submission writes carries the namespace of the
\* request, the name the cluster assigned in its 2xx answer and the cluster
\* the submission was forwarded to; (b) a lifecycle request for (ns, n) whose
\* lookup is answered is forwarded, with its own method, to the cluster of
\* the record written last for (n, ns), at the caller's path with the
\* caller's query string appended unchanged; it is not answered not-found.
C2_LifecycleFollowsRecord ==
    [][/\ \A i \in SubmitIds :
            (sub[i].pc = "insert" /\ sub'[i].saved = "ok")
            => /\ Is2xx(sub[i].dstatus)
               /\ sub[i].fwd.url = <<sub[i].cluster, "/api/v1/workflows/", sub[i].ns, "/submit">>
               /\ Len(table') = Len(table) + 1
               /\ table'[Len(table')].workflowname = AssignedName(sub[i].dbody)
               /\ table'[Len(table')].namespace = sub[i].ns
               /\ table'[Len(table')].cluster = sub[i].fwd.url[1]
       /\ \A j \in ProxyIds :
            (prx[j].pc = "idle" /\ prx'[j].pc # "idle" /\ prx'[j].hits > 0
                /\ prx'[j].exit # "DatabaseError")
            => /\ prx'[j].pc = "forward"
               /\ \A k \in 1..Len(table) :
                    NewestWritten(table, k, prx'[j].name, prx'[j].ns)
                    => /\ prx'[j].fwd.method = prx'[j].method
                       /\ prx'[j].fwd.url =
                            <<table[k].cluster, "/api/v1/workflows/", prx'[j].ns, "/",
                              prx'[j].name>>
                            \o (IF prx'[j].method = "PUT" THEN <<"/stop">> ELSE <<>>)
                            \o (IF prx'[j].query = "" THEN <<>>
                                ELSE <<"?", prx'[j].query>>)]_vars

\* C2 witness: wf-1 of ns1 was recorded first on c1 and then on c2, and a GET
\* with a query string is on its way to c2.
C2_Witness ==
    \E j \in ProxyIds :
        /\ prx[j].pc = "forward"
        /\ prx[j].fwd.url = <<"http://c2", "/api/v1/workflows/", "ns1", "/", "wf-1",
                              "?", "watch=true">>
        /\ Len(table) = 2
        /\ table[1].cluster = "http://c1" /\ table[2].cluster = "http://c2"
        /\ \A k \in 1..2 : table[k].workflowname = "wf-1" /\ table[k].namespace = "ns1"

\* C3: resolve returns NotFound when no record matches, and otherwise the
\* cluster of the matching record created last (greatest created_at).
C3_ResolvesMostRecentlyCreated ==
    \A n \in Names, ns \in Namespaces :
        LET m   == Matching(table, n, ns)
            res == getClusterFromDB(table, n, ns)
        IN  /\ m = {} => res.err = "ErrNoRows"
            /\ \A k \in m :
                 (\A l \in m \ {k} : table[l].created_at < table[k].created_at)
                 => res.err = "" /\ res.cluster = table[k].cluster

\* C8: the table only grows, by rows added at its end; every row that was
\* there stays as it was.
C8_AppendOnly ==
    [][/\ Len(table') >= Len(table)
       /\ SubSeq(table', 1, Len(table)) = table]_vars

\* C8 witness: two records of one (workflowName, namespace) coexist, for
\* different clusters.
C8_Witness ==
    \E k, l \in 1..Len(table) :
        /\ k < l
        /\ table[k].workflowname = table[l].workflowname
        /\ table[k].namespace = table[l].namespace
        /\ table[k].cluster # table[l].cluster

\* C9: no step of a lifecycle request changes the table, and the only steps
\* that change it are a submission's INSERT.
C9_ProxyReadsOnly ==
    [][/\ prx' # prx => table' = table
       /\ table' # table =>
            \E i \in SubmitIds : sub[i].pc = "insert" /\ sub'[i].saved = "ok"]_vars

\* C9 witness: a DELETE was proxied, the cluster answered 200, and the
\* record it was routed by is still there.
C9_Witness ==
    \E j \in ProxyIds :
        /\ prx[j].pc = "done" /\ prx[j].method = "DELETE"
        /\ prx[j].exit = "Relayed" /\ prx[j].status = 200
        /\ prx[j].hits = Len(table) /\ Len(table) > 0

\* C10: a lifecycle request whose lookup finds no record for its
\* (workflowName, namespace) sends nothing to any cluster and is answered
\* 404.
C10_NoRecordIsNotFound ==
    \A j \in ProxyIds :
        (prx[j].pc # "idle" /\ prx[j].hits = 0)
        => /\ prx[j].pc = "done"
           /\ prx[j].sent = 0
           /\ prx[j].exit # "DatabaseError" =>
                prx[j].status = 404 /\ prx[j].exit = "RoutingNotFound"

\* C10 witness: answered 404 while the table holds records of other
\* workflows.
C10_Witness ==
    \E j \in ProxyIds :
        /\ prx[j].pc = "done" /\ prx[j].exit = "RoutingNotFound"
        /\ prx[j].status = 404 /\ prx[j].sent = 0
        /\ Len(table) = 2

\* The clusters that satisfy a requirement: present in both snapshots, with
\* enough of both resources.
Candidates(cpus, mems, needCPU, needRAM) ==
    {c \in DOMAIN cpus \cap DOMAIN mems :
        100 * cpus[c] >= needCPU /\ 100 * mems[c] >= needRAM}

\* C4: when both snapshots were fetched, a returned cluster has, in both
\* snapshots, at least the required amount; and when no cluster satisfies
\* both requirements the answer is 404 and names no cluster.
C4_SelectedHasCapacity ==
    (scout.pc = "done" /\ scout.status \in {200, 404})
    => LET cand == Candidates(scout.cpus.m, scout.mems.m, scout.needCPU, scout.needRAM)
       IN  /\ scout.status = 200 => scout.cluster \in cand
           /\ cand = {} => scout.status = 404 /\ scout.cluster = ""

\* C5: a returned cluster is present in the CPU snapshot and in the RAM
\* snapshot, whatever the requirement.
C5_UnknownCapacityNeverSelected ==
    (scout.pc = "done" /\ scout.status = 200)
    => /\ scout.cluster \in DOMAIN scout.cpus.m
       /\ scout.cluster \in DOMAIN scout.mems.m

\* ------------------------------------------------------------ properties of calculateResources
MemKeys == {"driver_memory_limit", "executor_memory_limit"}
NumKeys == {"executor_num", "driver_cores_limit", "executor_cores_limit"}
MissingUnitText(key) == "memory param " \o key \o " must contain 'g' (gigabytes)"

\* The field of a parameter list: the value of the last entry "key=value"
\* with that key, if there is one.
Field(params, key) ==
    LET idx == {i \in 1..Len(params) : params[i].key = key /\ Len(params[i].rest) = 1}
    IN  IF idx = {} THEN [present |-> FALSE, text |-> <<>>]
        ELSE [present |-> TRUE,
              text |-> params[CHOOSE i \in idx : \A j \in idx : j <= i].rest[1]]

HasUnit(text) == \E i \in 1..Len(text) : text[i] = "g"
LacksUnit(params, key) == Field(params, key).present /\ ~HasUnit(Field(params, key).text)

\* C11: when a memory field is present with a value without the unit marker
\* "g", calculateResources returns an error, no requirement comes out of it
\* and the submission is answered 400; an error about a missing unit names
\* a field that lacks it, the driver's first.  When a memory field is
\* absent, the result is the one the same list gives with that field set to
\* 0g.
C11_MissingUnitIsRejected ==
    calc.pc = "done" =>
        /\ (\E k \in MemKeys : LacksUnit(calc.params, k))
           => /\ calc.res.err # ""
              /\ \A k \in MemKeys :
                   calc.res.err = MissingUnitText(k) => LacksUnit(calc.params, k)
              /\ LacksUnit(calc.params, "driver_memory_limit")
                   => calc.res.err = MissingUnitText("driver_memory_limit")
              /\ calc.res.cpu = 0 /\ calc.res.ram = 0
              /\ calc.status = 400
        /\ \A k \in MemKeys :
             ~Field(calc.params, k).present
             => calc.res = calculateResources(Append(calc.params, Param(k, <<"0", "g">>)))

\* C11 witness: the example list followed by driver_memory_limit=5 is
\* answered 400 with the key in the text.
C11_Witness ==
    /\ calc.pc = "done"
    /\ calc.params = ExampleParams \o <<Param("driver_memory_limit", <<"5">>)>>
    /\ calc.status = 400
    /\ calc.res.err = MissingUnitText("driver_memory_limit")

\* The decimal a field's text stands for (0 when absent), in hundredths;
\* for a memory field, the text without its unit marker.
IsDecimal(text) == ParseFloat(text).ok
NumOf(params, key) ==
    IF Field(params, key).present THEN ParseFloat(Field(params, key).text).val ELSE 0
MemOf(params, key) ==
    IF Field(params, key).present
    THEN ParseFloat(RemoveAll(Field(params, key).text, "g")).val ELSE 0

\* C16: for an accepted list whose numeric fields, where present, are
\* decimals, cpu = executor_cores_limit * executor_num + driver_cores_limit
\* and ram = executor_memory_limit * executor_num + driver_memory_limit,
\* absent fields counting 0; the README's example gives 3 and 12.25.
C16_RequirementFormula ==
    (calc.pc = "done" /\ calc.res.err = ""
        /\ \A k \in NumKeys : Field(calc.params, k).present
                                => IsDecimal(Field(calc.params, k).text))
    => /\ calc.res.cpu = NumOf(calc.params, "executor_cores_limit")
                             * NumOf(calc.params, "executor_num")
                         + 100 * NumOf(calc.params, "driver_cores_limit")
       /\ calc.res.ram = MemOf(calc.params, "executor_memory_limit")
                             * NumOf(calc.params, "executor_num")
                         + 100 * MemOf(calc.params, "driver_memory_limit")
       /\ calc.params = ExampleParams
            => calc.res.cpu = 30000 /\ calc.res.ram = 122500

\* C16 witness: the README's example with three executors of two cores
\* instead: 6 + 1 cores, 18 + 0.25 GB.
C16_Witness ==
    /\ calc.pc = "done"
    /\ calc.params = ExampleParams \o <<Param("executor_num", <<"3">>),
                                        Param("executor_cores_limit", <<"2">>)>>
    /\ calc.res = [err |-> "", cpu |-> 70000, ram |-> 182500]

RemoveAt(s, i) == SubSeq(s, 1, i - 1) \o SubSeq(s, i + 1, Len(s))
Malformed(p) == Len(p.rest) # 1

\* C17: an entry with no "=" or with more than one is dropped: the result
\* of calculateResources, error included, is the result for the list without
\* that entry.
C17_MalformedEntriesDropped ==
    calc.pc = "done" =>
        \A i \in 1..Len(calc.params) :
            Malformed(calc.params[i])
            => calc.res = calculateResources(RemoveAt(calc.params, i))

\* C17 witness: the example list followed by "driver_memory_limit=5=6" is
\* accepted with the example's requirement.
C17_Witness ==
    /\ calc.pc = "done"
    /\ calc.params = ExampleParams
                       \o <<[key |-> "driver_memory_limit", rest |-> <<<<"5">>, <<"6">>>>]>>
    /\ calc.res = [err |-> "", cpu |-> 30000, ram |-> 122500]

\* ------------------------------------------------------------ properties of the failure exits
\* The call to the scout failed upstream: the scout was not reached, its
\* answer could not be decoded, or it reported a failure of its own
\* (Prometheus unreachable or undecodable).
UpstreamFailure(r) ==
    \/ r.skind \in {"neterr", "garbled"}
    \/ r.skind = "http" /\ r.sstatus \notin {200, 404}
EmptyCandidates(r) == r.skind = "http" /\ r.sstatus = 404

\* C12: a submission whose placement call failed upstream is answered 500,
\* never 404; one for which the scout found no candidate is answered 404.
C12_UpstreamFailureIsServerError ==
    \A i \in SubmitIds :
        sub[i].pc = "done" =>
            /\ UpstreamFailure(sub[i]) => sub[i].status = 500
            /\ EmptyCandidates(sub[i]) => sub[i].status = 404

\* C13: a submission is forwarded at most once; one whose forward got no
\* response is answered 502 (ForwardFailed), attempted no routing-record
\* write and has no row in the table.
C13_ForwardFailureIsBadGateway ==
    /\ \A i \in SubmitIds :
         /\ sub[i].sent <= 1
         /\ (sub[i].pc = "done" /\ sub[i].sent = 1 /\ sub[i].dstatus = 0)
            => /\ sub[i].status = 502 /\ sub[i].exit = "ForwardFailed"
               /\ sub[i].attempts = 0 /\ sub[i].saved = "none" /\ sub[i].rowid = 0
         /\ sub[i].exit = "ForwardFailed" => sub[i].sent = 1 /\ sub[i].dstatus = 0
    /\ Len(table) <= Cardinality({i \in SubmitIds : sub[i].exit = "Completed"})

\* C13 witness: one submission ended in ForwardFailed after its single
\* forward, while another one was recorded.
C13_Witness ==
    \E i, k \in SubmitIds :
        /\ sub[i].pc = "done" /\ sub[i].exit = "ForwardFailed" /\ sub[i].status = 502
        /\ sub[i].sent = 1
        /\ sub[k].saved = "ok" /\ Len(table) = 1

\* C18: the steps of a submission come in order: the scout is asked only
\* after validation succeeded, the forward is sent only after the scout
\* named a cluster, the routing record is written only after the cluster
\* answered (2xx), the caller is answered exactly when the handler is done,
\* and a submission that left through a failure exit has done none of the
\* later steps.
C18_StepsInOrder ==
    \A i \in SubmitIds :
        LET r == sub[i]
        IN  /\ r.valid # None <=> r.pc # "idle" /\ r.exit # "ReadFailed"
            /\ r.skind # None => r.valid = "ok" /\ r.pc \notin {"idle", "place"}
            /\ r.sent > 0 => r.skind = "http" /\ r.sstatus = 200
            /\ r.pc = "forward" => r.sent = 1 /\ r.cluster # "" /\ r.dstatus = 0
            /\ r.dstatus # 0 => r.sent = 1
            /\ r.attempts > 0 => r.dstatus # 0 /\ Is2xx(r.dstatus)
            /\ r.saved # "none" => r.attempts > 0 /\ r.pc = "done"
            /\ r.status # 0 <=> r.pc = "done"
            /\ r.exit = "ReadFailed" => r.valid = None /\ r.skind = None /\ r.sent = 0
            /\ r.exit = "ValidationFailed" => r.skind = None /\ r.sent = 0
            /\ r.exit = "PlacementFailed" => r.sent = 0 /\ r.dstatus = 0
            /\ r.exit = "ForwardFailed" => r.dstatus = 0 /\ r.attempts = 0
            /\ r.exit = "Completed" => r.dstatus # 0 /\ r.status = r.dstatus

\* C18 witness: a submission went through every step and was recorded.
C18_Witness ==
    \E i \in SubmitIds :
        /\ sub[i].pc = "done" /\ sub[i].exit = "Completed"
        /\ sub[i].valid = "ok" /\ sub[i].skind = "http" /\ sub[i].sent = 1
        /\ sub[i].dstatus = 299 /\ sub[i].saved = "ok" /\ sub[i].status = 299

\* C19: a submission that failed validation (malformed JSON, memory unit)
\* asked the scout nothing, and neither it nor a submission whose placement
\* failed (scout error or no candidate) sent anything to a cluster or
\* attempted a routing-record write; they are answered 400, and 404 or 500.
C19_FailureExitsTouchNothing ==
    \A i \in SubmitIds :
        /\ sub[i].valid \in {"badjson", "badparams"}
           => /\ sub[i].pc = "done" /\ sub[i].exit = "ValidationFailed"
              /\ sub[i].status = 400
              /\ sub[i].skind = None
              /\ sub[i].sent = 0 /\ sub[i].attempts = 0 /\ sub[i].saved = "none"
        /\ (UpstreamFailure(sub[i]) \/ EmptyCandidates(sub[i]))
           => /\ sub[i].pc = "done" /\ sub[i].exit = "PlacementFailed"
              /\ sub[i].status \in {404, 500}
              /\ sub[i].sent = 0 /\ sub[i].attempts = 0 /\ sub[i].saved = "none"

\* C19 witness: one submission with a memory value without unit and one for
\* which the scout found no cluster, both answered, the table empty.
C19_Witness ==
    \E i, k \in SubmitIds :
        /\ sub[i].pc = "done" /\ sub[i].valid = "badparams" /\ sub[i].status = 400
        /\ sub[k].pc = "done" /\ EmptyCandidates(sub[k]) /\ sub[k].status = 404
        /\ table = <<>>

\* ------------------------------------------------------------ termination
\* C14: every submission that was received and every lifecycle request that
\* is being served is eventually answered.
C14_EveryRequestIsAnswered ==
    /\ \A i \in SubmitIds : (sub[i].pc \notin {"idle", "done"}) ~> (sub[i].pc = "done")
    /\ \A j \in ProxyIds : (prx[j].pc = "forward") ~> (prx[j].pc = "done")

\* ------------------------------------------------------------ properties of handleProxy
\* C15: a lifecycle request on its way to the resolved cluster carries the
\* caller's method, path, query string, body and tuz header, addressed to
\* the cluster of a record of its (workflowName, namespace); and once the
\* cluster answered, the caller got its status code, content type and body.
C15_LifecycleRelayedVerbatim ==
    \A j \in ProxyIds :
        /\ prx[j].pc = "forward"
           => /\ \E k \in Matching(table, prx[j].name, prx[j].ns) :
                    table[k].cluster = prx[j].cluster
              /\ prx[j].fwd.method = prx[j].method
              /\ prx[j].fwd.url =
                    <<prx[j].cluster, "/api/v1/workflows/", prx[j].ns, "/", prx[j].name>>
                    \o (IF prx[j].method = "PUT" THEN <<"/stop">> ELSE <<>>)
                    \o (IF prx[j].query = "" THEN <<>> ELSE <<"?", prx[j].query>>)
              /\ prx[j].fwd.body = prx[j].body
              /\ prx[j].fwd.tuz = prx[j].tuz /\ prx[j].tuz \in Tuzs
        /\ (prx[j].pc = "done" /\ prx[j].dstatus # 0)
           => /\ prx[j].sent = 1
              /\ prx[j].status = prx[j].dstatus
              /\ prx[j].rctype = prx[j].dctype
              /\ prx[j].rbody = prx[j].dbody

\* C15 witness: a PUT .../stop with a body was relayed and the cluster's 404
\* text/plain answer reached the caller.
C15_Witness ==
    \E j \in ProxyIds :
        /\ prx[j].pc = "done" /\ prx[j].method = "PUT" /\ prx[j].sent = 1
        /\ prx[j].dstatus = 404 /\ prx[j].status = 404
        /\ prx[j].rctype = "text/plain" /\ prx[j].rbody = "workflow not found"

\* ------------------------------------------------------------ placement without reservation
\* The capacity Prometheus reports for a cluster of a namespace, in
\* ten-thousandths.
ReportedCPU(ns, c) == 100 * fetchResources(prom[ns].cpu)[c]
ReportedRAM(ns, c) == 100 * fetchResources(prom[ns].ram)[c]
Fits(ns, c, cpu, ram) ==
    /\ c \in DOMAIN fetchResources(prom[ns].cpu) \cap DOMAIN fetchResources(prom[ns].ram)
    /\ ReportedCPU(ns, c) >= cpu /\ ReportedRAM(ns, c) >= ram

\* C20: nothing is reserved by a placement: what is reported stays what it
\* was, and a submission waiting for its placement can be given every
\* cluster whose reported capacity covers its own requirement, whatever
\* other submissions have been placed on that cluster and not yet forwarded.
C20_PlacementReservesNothing ==
    /\ prom = MainProm
    /\ \A i \in SubmitIds :
         sub[i].pc = "place"
         => \A c \in Clusters :
               Fits(sub[i].ns, c, sub[i].cpu, sub[i].ram)
               => \E reply \in ScoutReplies(i) :
                     /\ getTargetCluster(reply).err = <<>>
                     /\ getTargetCluster(reply).cluster = c

\* C20 witness: two submissions of one namespace are on their way to the
\* same cluster, each within the capacity the cluster reported, their sum
\* beyond it.
C20_Witness ==
    \E i, k \in SubmitIds :
        /\ i # k
        /\ sub[i].pc = "forward" /\ sub[k].pc = "forward"
        /\ sub[i].ns = sub[k].ns /\ sub[i].cluster = sub[k].cluster
        /\ Fits(sub[i].ns, sub[i].cluster, sub[i].cpu, sub[i].ram)
        /\ Fits(sub[k].ns, sub[k].cluster, sub[k].cpu, sub[k].ram)
        /\ sub[i].cpu + sub[k].cpu > ReportedCPU(sub[i].ns, sub[i].cluster)

\* ------------------------------------------------------------ properties of the scout
\* C21: with two or more candidates (clusters of both snapshots with enough
\* of both resources), every candidate can be the answer of the capacity
\* query, and the answer is a candidate.
C21_SelectionsAreTheCandidates ==
    LET cand == Candidates(scout.cpus.m, scout.mems.m, scout.needCPU, scout.needRAM)
    IN  (~scout.cpus.err /\ ~scout.mems.err /\ Cardinality(cand) >= 2)
        => /\ scout.pc = "select"
              => \A c \in cand :
                    [status |-> 200, cluster |-> c]
                        \in scoutSelect(scout.cpus, scout.mems, scout.needCPU, scout.needRAM)
           /\ (scout.pc = "done" /\ scout.status = 200) => scout.cluster \in cand

\* C22: when the CPU query or the RAM query failed, the capacity query is
\* answered 500 and names no cluster; each of the two queries is made at
\* most once, and both have been made once when the answer is decided.
C22_FetchFailureIsServerError ==
    /\ scout.ncpu <= 1 /\ scout.nram <= 1
    /\ scout.pc = "select" => scout.ncpu = 1 /\ scout.nram = 1
    /\ (scout.pc = "done" /\ scout.ncpu = 1 /\ (scout.cpus.err \/ scout.mems.err))
       => scout.status = 500 /\ scout.cluster = ""

\* C22 witness: the CPU snapshot alone would have offered two clusters, the
\* RAM query failed, and the answer is 500.
C22_Witness ==
    /\ scout.pc = "done" /\ scout.status = 500 /\ scout.cluster = ""
    /\ ~scout.cpus.err /\ scout.mems.err
    /\ Cardinality({c \in DOMAIN scout.cpus.m : 100 * scout.cpus.m[c] >= scout.needCPU}) >= 2
    /\ scout.ncpu = 1 /\ scout.nram = 1

\* ------------------------------------------------------------ what handleSubmit forwards
\* C23: the request a submission forwards is a POST to the submission
\* endpoint, under the namespace of the caller's path, of the cluster the
\* scout named, with the bytes of the caller's body and the caller's tuz
\* header.
C23_ForwardedAsReceived ==
    \A i \in SubmitIds :
        sub[i].pc = "forward"
        => /\ sub[i].skind = "http" /\ sub[i].sstatus = 200 /\ sub[i].scluster # ""
           /\ sub[i].fwd.method = "POST"
           /\ sub[i].fwd.url = <<sub[i].scluster, "/api/v1/workflows/", sub[i].ns, "/submit">>
           /\ sub[i].fwd.body = sub[i].body /\ sub[i].body \in ReqBodies
           /\ sub[i].fwd.tuz = sub[i].tuz /\ sub[i].tuz \in Tuzs

\* C23 witness: two submissions of ns1 with differently written bodies are
\* on their way to different clusters, each with its own body.
C23_Witness ==
    \E i, k \in SubmitIds :
        /\ sub[i].pc = "forward" /\ sub[k].pc = "forward"
        /\ sub[i].fwd.body = OkBody /\ sub[k].fwd.body = OkBodyLabels
        /\ sub[i].fwd.url = <<"http://c1", "/api/v1/workflows/", "ns1", "/submit">>
        /\ sub[k].fwd.url = <<"http://c2", "/api/v1/workflows/", "ns1", "/submit">>

\* ------------------------------------------------------------ repeated keys, signs
WellFormedAt(params, k) == {i \in 1..Len(params) : params[i].key = k /\ ~Malformed(params[i])}

\* The list without the entries of key k that come before its last
\* well-formed entry.
WithoutEarlier(params, k) ==
    LET idx  == WellFormedAt(params, k)
        last == CHOOSE i \in idx : \A j \in idx : j <= i
    IN  IF idx = {} THEN params
        ELSE SelectSeq([i \in 1..Len(params) |->
                           [e |-> params[i], keep |-> ~(params[i].key = k /\ i < last)]],
                       LAMBDA x : x.keep)

Entries(marked) == [i \in 1..Len(marked) |-> marked[i].e]

\* C24: when a key is repeated, the value of its last well-formed entry is
\* the one used: the result is the result for the list without the earlier
\* entries of that key.
C24_LastOccurrenceWins ==
    calc.pc = "done" =>
        \A k \in MemKeys \cup NumKeys :
            WellFormedAt(calc.params, k) # {}
            => /\ calc.res = calculateResources(Entries(WithoutEarlier(calc.params, k)))
               /\ Field(calc.params, k).text
                    = calc.params[CHOOSE i \in WellFormedAt(calc.params, k) :
                                     \A j \in WellFormedAt(calc.params, k) : j <= i].rest[1]

\* C24 witness: the example list (two executors) followed by executor_num=3
\* gives 1 * 3 + 1 cores and 6 * 3 + 0.25 GB.
C24_Witness ==
    /\ calc.pc = "done"
    /\ calc.params = ExampleParams \o <<Param("executor_num", <<"3">>)>>
    /\ calc.res = [err |-> "", cpu |-> 40000, ram |-> 182500]

\* C27: an accepted parameter list gives a requirement that is not negative.
C27_RequirementNotNegative ==
    (calc.pc = "done" /\ calc.res.err = "") => calc.res.cpu >= 0 /\ calc.res.ram >= 0

\* ------------------------------------------------------------ records and acceptances
\* The submissions a cluster accepted (2xx with an assigned name) under the
\* name n in namespace ns, and those of them whose caller has been answered.
Acceptors(n, ns) ==
    {i \in SubmitIds : sub[i].acc > 0 /\ sub[i].ns = ns /\ AssignedName(sub[i].dbody) = n}
Answered(n, ns) == {i \in Acceptors(n, ns) : sub[i].pc = "done"}
Recorded(n, ns) == {i \in Acceptors(n, ns) : sub[i].saved = "ok"}

\* C25: every row of the table is the row of one submission: of the
\* namespace of that submission's path, for the cluster the scout named and
\* the submission was forwarded to, under the name a 2xx answer assigned;
\* and a lifecycle request on its way goes to the cluster of such a
\* submission of its own name and namespace.
C25_RecordsComeFromAcceptedSubmissions ==
    /\ \A i \in SubmitIds :
         sub[i].pc \in {"forward", "save", "insert"}
         => sub[i].cluster = sub[i].scluster /\ sub[i].fwd.url[1] = sub[i].scluster
    /\ \A k \in 1..Len(table) :
         \E i \in SubmitIds :
            /\ sub[i].saved = "ok" /\ sub[i].rowid = table[k].id
            /\ sub[i].ns = table[k].namespace
            /\ sub[i].skind = "http" /\ sub[i].sstatus = 200
            /\ sub[i].scluster = table[k].cluster
            /\ sub[i].sent = 1
            /\ Is2xx(sub[i].dstatus)
            /\ AssignedName(sub[i].dbody) = table[k].workflowname
            /\ table[k].workflowname # ""
    /\ \A j \in ProxyIds :
         prx[j].sent > 0 /\ prx[j].pc = "forward"
         => \E i \in Recorded(prx[j].name, prx[j].ns) : sub[i].scluster = prx[j].cluster

\* C25 witness: a lifecycle request for wf-2 of ns1 is on its way to c2,
\* where a submission of ns1 was accepted as wf-2, while wf-1 is on c1.
C25_Witness ==
    \E j \in ProxyIds, i, k \in SubmitIds :
        /\ prx[j].pc = "forward" /\ prx[j].name = "wf-2" /\ prx[j].cluster = "http://c2"
        /\ i \in Recorded("wf-2", "ns1") /\ sub[i].scluster = "http://c2"
        /\ k \in Recorded("wf-1", "ns1") /\ sub[k].scluster = "http://c1"

\* The submission accepted last among those of a set.
LastAccepted(S) == CHOOSE i \in S : \A k \in S : sub[k].acc <= sub[i].acc
LastRecorded(S) == CHOOSE i \in S : \A k \in S : sub[k].rowid <= sub[i].rowid

\* C26 as stated: whenever a submission was accepted under (n, ns) and its
\* caller answered, a lifecycle request for (n, ns) is not answered 404 and
\* goes to the cluster that accepted last.
C26_FollowsLastAcceptance ==
    \A n \in Names, ns \in Namespaces :
        Answered(n, ns) # {}
        => /\ getClusterFromDB(table, n, ns).err = ""
           /\ getClusterFromDB(table, n, ns).cluster
                = sub[LastAccepted(Answered(n, ns))].scluster

\* C26 amended: a lifecycle request for (n, ns) follows the records: it
\* finds no row exactly when no submission accepted under (n, ns) has
\* written its record, and otherwise resolves to the cluster of the
\* acceptance recorded last; an acceptance whose write failed or is still
\* to come does not count.
C26_FollowsLastRecordedAcceptance ==
    /\ \A n \in Names, ns \in Namespaces :
         LET res == getClusterFromDB(table, n, ns)
         IN  /\ Recorded(n, ns) = {} <=> res.err = "ErrNoRows"
             /\ Recorded(n, ns) # {}
                => res.cluster = sub[LastRecorded(Recorded(n, ns))].scluster
    /\ \A j \in ProxyIds :
         /\ prx[j].lookup = "norows" => prx[j].hits = 0 /\ prx[j].status = 404
         /\ prx[j].lookup = "found" => prx[j].hits > 0 /\ prx[j].sent = 1
         /\ prx[j].pc = "forward"
            => \E i \in Recorded(prx[j].name, prx[j].ns) : sub[i].scluster = prx[j].cluster

\* C26 witness: wf-1 of ns1 was accepted on c1 and recorded, then accepted
\* on c2 where the write failed; the lifecycle request goes to c1.
C26_Witness ==
    \E j \in ProxyIds, i, k \in SubmitIds :
        /\ i \in Recorded("wf-1", "ns1") /\ sub[i].scluster = "http://c1"
        /\ k \in Answered("wf-1", "ns1") /\ sub[k].saved = "failed"
        /\ sub[k].scluster = "http://c2" /\ sub[k].acc > sub[i].acc
        /\ prx[j].pc = "forward" /\ prx[j].name = "wf-1" /\ prx[j].ns = "ns1"
        /\ prx[j].cluster = "http://c1"

\* C28: a lifecycle request whose SELECT failed with an error other than
\* "no rows" is answered 500 and sent nothing to any cluster.
C28_ReadErrorIsServerError ==
    \A j \in ProxyIds :
        prx[j].lookup = "error"
        => /\ prx[j].pc = "done"
           /\ prx[j].status = 500 /\ prx[j].rbody = "Database error"
           /\ prx[j].sent = 0 /\ prx[j].dstatus = 0

\* C28 witness: the SELECT failed while the table held a matching record.
C28_Witness ==
    \E j \in ProxyIds :
        /\ prx[j].pc = "done" /\ prx[j].lookup = "error"
        /\ prx[j].hits > 0 /\ prx[j].status = 500 /\ prx[j].sent = 0

====
